---- MODULE Spec2Model ----
(***************************************************************************)
(* A model of hoatzin's Model class (src/src/index.ts): the schema         *)
(* reconciler (cleanUp / checkTypeMatching), the locked-field guard        *)
(* (changeLockedBack), save, and the find / findOne / create /             *)
(* findOneAndDelete / findOneAndUpdate operations over a directory of JSON *)
(* files.                                                                  *)
(*                                                                         *)
(* JavaScript values are tagged records.  An array carries its indexed     *)
(* elements (a, where Hole marks a deleted index) and its named own        *)
(* properties (p), because checkTypeMatching can leave both on an array.   *)
(* Property keys are strings, as in JavaScript: index k of an array is the *)
(* key IdxStr(k).  The order of an object's keys is not modelled: the code *)
(* never reorders keys, so the JSON.stringify comparisons it makes between *)
(* a value and its reconciled copy agree with structural equality.         *)
(***************************************************************************)
EXTENDS Integers, Sequences, FiniteSets, TLC

VARIABLES schema, strict, store, pc, op, res, prev
vars == <<schema, strict, store, pc, op, res, prev>>

RECURSIVE checkTypeMatching(_, _, _)
RECURSIVE ctmLoop(_, _, _)
RECURSIVE cleanUpLoop(_, _, _)
RECURSIVE changeLockedBack(_, _, _, _)
RECURSIVE clbLoop(_, _, _, _)
RECURSIVE jsonRoundTrip(_)
RECURSIVE JoinFrom(_, _)
RECURSIVE findOneLoop(_, _, _, _)
RECURSIVE guardLoop(_, _, _)
RECURSIVE constructLoop(_, _, _)
RECURSIVE GenVal(_)
RECURSIVE GenProps(_, _)
RECURSIVE ConformantValues(_)
RECURSIVE ConformantProps(_, _)
RECURSIVE enforceLockedLoop(_, _, _)
RECURSIVE JoinSep(_, _, _)
RECURSIVE objectReducer(_, _)
RECURSIVE reducerLoop(_, _, _, _, _)
RECURSIVE formatFlat(_, _, _, _)
RECURSIVE createLogArray(_, _, _)
RECURSIVE claLoop(_, _, _, _, _)

(***************************************************************************)
(* Bounds of the model.                                                    *)
(***************************************************************************)
MaxLen == 2
MaxFiles == 2

(***************************************************************************)
(* JavaScript values.                                                      *)
(***************************************************************************)
Undefined == [t |-> "undefined"]
Null == [t |-> "null"]
Hole == [t |-> "hole"]
Str(s) == [t |-> "string", s |-> s]
Num(n) == [t |-> "number", n |-> n]
Bool(b) == [t |-> "boolean", b |-> b]
NoProps == [k \in {} |-> Undefined]
Arr(elems) == [t |-> "array", a |-> elems, p |-> NoProps]
Obj(props) == [t |-> "object", o |-> props]
EmptyObj == Obj(NoProps)
EmptyArr == Arr(<<>>)
Prop1(k, v) == [x \in {k} |-> v]
Prop2(k1, v1, k2, v2) == [x \in {k1, k2} |-> IF x = k1 THEN v1 ELSE v2]
Prop3(k1, v1, k2, v2, k3, v3) == [x \in {k1, k2, k3} |-> IF x = k1 THEN v1 ELSE IF x = k2 THEN v2 ELSE v3]

\* A thrown TypeError of the runtime (property access on null or undefined,
\* assignment to a property of a primitive in a strict-mode module).
Throw == [t |-> "throw", e |-> "TypeError"]
IsThrow(v) == v.t = "throw"
\* The RangeError 'Invalid array length' of an assignment to arr.length.
RangeError == [t |-> "throw", e |-> "RangeError"]

IsArray(v) == v.t = "array"
\* val === Object(val): objects and arrays, not null and not a primitive.
IsObjectLike(v) == v.t \in {"object", "array"}
IsNullish(v) == v.t \in {"null", "undefined"}

\* The decimal keys of array indexes 0, 1, 2, ...
IdxKeys == <<"0", "1", "2", "3", "4">>
IdxStr(k) == IdxKeys[k + 1]
IsIdx(key) == \E i \in 1..Len(IdxKeys) : IdxKeys[i] = key
IdxOf(key) == CHOOSE i \in 1..Len(IdxKeys) : IdxKeys[i] = key

\* Strings of the model have at most one character, so "s"[0] is s itself.
StrKeys(s) == IF s = "" THEN {} ELSE {"0"}

\* Object.keys(v); throws on null and undefined.
ObjectKeys(v) ==
    IF v.t = "object" THEN DOMAIN v.o
    ELSE IF v.t = "array"
        THEN {IdxKeys[i] : i \in {j \in 1..Len(v.a) : v.a[j] # Hole}} \cup DOMAIN v.p
    ELSE IF v.t = "string" THEN StrKeys(v.s)
    ELSE {}

\* Object.hasOwn(v, key) for an object or array v: the length of an array is
\* an own property that Object.keys does not list.
HasOwn(v, key) == key \in ObjectKeys(v) \/ (v.t = "array" /\ key = "length")

\* v[key]; throws on null and undefined (the caller tests IsNullish first).
\* Here and below an operator given a thrown error yields it: the statement
\* that would have used the value is never reached.
Get(v, key) ==
    IF IsThrow(v) THEN v
    ELSE IF v.t = "object" THEN (IF key \in DOMAIN v.o THEN v.o[key] ELSE Undefined)
    ELSE IF v.t = "array"
        THEN IF IsIdx(key)
                THEN (IF IdxOf(key) <= Len(v.a) /\ v.a[IdxOf(key)] # Hole
                        THEN v.a[IdxOf(key)] ELSE Undefined)
             ELSE IF key = "length" THEN Num(Len(v.a))
             ELSE (IF key \in DOMAIN v.p THEN v.p[key] ELSE Undefined)
    ELSE IF v.t = "string"
        THEN IF key = "length" THEN Num(Cardinality(StrKeys(v.s)))
             ELSE IF key \in StrKeys(v.s) THEN v ELSE Undefined
    ELSE Undefined

\* arr.length of an array value.
Length(v) == Len(v.a)

SetKey(f, key, val) == [x \in DOMAIN f \cup {key} |-> IF x = key THEN val ELSE f[x]]
DelKey(f, key) == [x \in DOMAIN f \ {key} |-> f[x]]

\* The array length a value assigned to arr.length stands for (its ToNumber,
\* when that is an unsigned integer), or -1 when the assignment throws.
Digits == <<"0", "1", "2", "3", "4", "5", "6", "7", "8", "9">>
ArrayLengthOf(val) ==
    IF val.t = "number" THEN val.n
    ELSE IF val.t = "boolean" THEN (IF val.b THEN 1 ELSE 0)
    ELSE IF val.t = "null" THEN 0
    ELSE IF val.t = "string"
        THEN IF val.s = "" THEN 0
             ELSE IF \E i \in 1..Len(Digits) : Digits[i] = val.s
                THEN (CHOOSE i \in 1..Len(Digits) : Digits[i] = val.s) - 1
             ELSE -1
    ELSE IF val.t = "array" /\ Len(val.a) = 0 THEN 0
    ELSE -1

\* arr.length = val: the array cut or grown with holes, or the RangeError.
SetLength(v, val) ==
    IF ArrayLengthOf(val) < 0 THEN RangeError
    ELSE [v EXCEPT !.a = [i \in 1..ArrayLengthOf(val) |-> IF i <= Len(v.a) THEN v.a[i] ELSE Hole]]

\* v[key] = val.  An index past the end of an array grows it, leaving holes in
\* between.  On a primitive the assignment throws: the module is an ES module,
\* which runs in strict mode.
SetProp(v, key, val) ==
    IF IsThrow(v) THEN v
    ELSE IF IsThrow(val) THEN val
    ELSE IF v.t = "object" THEN [v EXCEPT !.o = SetKey(v.o, key, val)]
    ELSE IF v.t = "array"
        THEN IF IsIdx(key)
                THEN [v EXCEPT !.a = [i \in 1..(IF IdxOf(key) > Len(v.a) THEN IdxOf(key) ELSE Len(v.a)) |->
                                        IF i = IdxOf(key) THEN val
                                        ELSE IF i <= Len(v.a) THEN v.a[i] ELSE Hole]]
             ELSE IF key = "length" THEN SetLength(v, val)
             ELSE [v EXCEPT !.p = SetKey(v.p, key, val)]
    ELSE Throw

\* delete v[key] on an object or array: a deleted index leaves a hole, and
\* the length of an array cannot be deleted.
DeleteProp(v, key) ==
    IF v.t = "object" THEN [v EXCEPT !.o = DelKey(v.o, key)]
    ELSE IF v.t = "array"
        THEN IF IsIdx(key)
                THEN (IF IdxOf(key) <= Len(v.a)
                        THEN [v EXCEPT !.a = [@ EXCEPT ![IdxOf(key)] = Hole]] ELSE v)
             ELSE IF key = "length" THEN Throw
             ELSE [v EXCEPT !.p = DelKey(v.p, key)]
    ELSE v

\* Removes the own keys ks of an object or array (delete v[k] for k in ks).
RemoveKeys(v, ks) ==
    IF v.t = "object" THEN [v EXCEPT !.o = [x \in DOMAIN v.o \ ks |-> v.o[x]]]
    ELSE IF v.t = "array"
        THEN [v EXCEPT !.a = [i \in 1..Len(v.a) |-> IF IdxKeys[i] \in ks THEN Hole ELSE v.a[i]],
                       !.p = [x \in DOMAIN v.p \ ks |-> v.p[x]]]
    ELSE v

(***************************************************************************)
(* JSON.parse(JSON.stringify(v)): an object loses its undefined-valued     *)
(* properties, an array loses its named properties and has null where it   *)
(* had a hole or undefined.                                                *)
(***************************************************************************)
jsonRoundTripSeq(elems) ==
    [i \in 1..Len(elems) |->
        IF elems[i].t \in {"hole", "undefined"} THEN Null ELSE jsonRoundTrip(elems[i])]

jsonRoundTrip(v) ==
    IF v.t = "object"
        THEN Obj([k \in {x \in DOMAIN v.o : v.o[x].t # "undefined"} |-> jsonRoundTrip(v.o[k])])
    ELSE IF v.t = "array" THEN Arr(jsonRoundTripSeq(v.a))
    ELSE v

\* JSON.stringify(a) === JSON.stringify(b)
SameJson(a, b) == jsonRoundTrip(a) = jsonRoundTrip(b)

(***************************************************************************)
(* Schema descriptors (the interfaces of lines 22-71).                     *)
(***************************************************************************)
StringSchema(d, l) == [type |-> "string", default |-> d, locked |-> l]
OptionalStringSchema(d, l) == [type |-> "string?", default |-> d, locked |-> l]
NumberSchema(d, l) == [type |-> "number", default |-> d, locked |-> l]
OptionalNumberSchema(d, l) == [type |-> "number?", default |-> d, locked |-> l]
StringNumberSchema(d, l) == [type |-> "string|number", default |-> d, locked |-> l]
BooleanSchema(d, l) == [type |-> "boolean", default |-> d, locked |-> l]
ArraySchema(of) == [type |-> "array", of |-> of]
MapSchema(of) == [type |-> "map", of |-> of]
ObjectSchema(fields) == [type |-> "object", default |-> fields]

isPrimitiveSchema(value) ==
    value.type \in {"string", "string?", "number", "number?", "string|number", "boolean"}

primitiveTypeDoesNotMatch(value, valToCheck) ==
    LET isNotString == value.type = "string" /\ valToCheck.t # "string"
        isNotStringOrNull == value.type = "string?" /\ valToCheck.t # "null" /\ valToCheck.t # "string"
        isNotNumber == value.type = "number" /\ valToCheck.t # "number"
        isNotNumberOrNull == value.type = "number?" /\ valToCheck.t # "null" /\ valToCheck.t # "number"
        isNotStringOrNumber == value.type = "string|number" /\ valToCheck.t # "string" /\ valToCheck.t # "number"
        isNotBoolean == value.type = "boolean" /\ valToCheck.t # "boolean"
    IN  isNotString \/ isNotStringOrNull \/ isNotNumber \/ isNotNumberOrNull
            \/ isNotStringOrNumber \/ isNotBoolean

(***************************************************************************)
(* checkTypeMatching (lines 350-414).  The value returned is obj after the *)
(* in-place changes, or Throw.                                             *)
(***************************************************************************)
\* lines 357-362: add the key if the object doesn't have it
ctmAddKey(obj, key, value) ==
    IF ~IsArray(obj) /\ ~HasOwn(obj, key)
        THEN IF value.type = "array" THEN SetProp(obj, key, EmptyArr)
             ELSE IF value.type = "map" \/ value.type = "object" THEN SetProp(obj, key, EmptyObj)
             ELSE SetProp(obj, key, value.default)
        ELSE obj

\* line 384: the value at a map position is replaced by {}
ctmMapNeedsReset(v) == ~IsObjectLike(v) \/ IsArray(v)

\* line 397: the value at an object position is replaced by {}
ctmObjectNeedsReset(v) == ~IsObjectLike(v) /\ ~IsArray(v)

\* lines 365, 379, 384, 397: the value at key is replaced when its kind is not
\* the descriptor's
ctmReset(obj, key, value) ==
    IF IsThrow(obj) THEN obj
    ELSE IF isPrimitiveSchema(value)
        THEN IF primitiveTypeDoesNotMatch(value, Get(obj, key))
                THEN SetProp(obj, key, value.default) ELSE obj
    ELSE IF value.type = "array"
        THEN IF IsArray(Get(obj, key)) THEN obj ELSE SetProp(obj, key, EmptyArr)
    ELSE IF value.type = "map"
        THEN IF ctmMapNeedsReset(Get(obj, key)) THEN SetProp(obj, key, EmptyObj) ELSE obj
    ELSE IF value.type = "object"
        THEN IF ctmObjectNeedsReset(Get(obj, key)) THEN SetProp(obj, key, EmptyObj) ELSE obj
    ELSE obj

\* The <<k, descriptor>> pairs the loops of lines 373, 388 and 400 visit: the
\* indexes of the array, the keys of the map, the fields of the object.
ctmItems(v, value) ==
    IF IsThrow(v) \/ isPrimitiveSchema(value) THEN {}
    ELSE IF value.type = "array" THEN {<<IdxStr(k), value.of>> : k \in 0..(Length(v) - 1)}
    ELSE IF value.type = "map" THEN {<<k, value.of>> : k \in ObjectKeys(v)}
    ELSE IF value.type = "object" THEN {<<k, value.default[k]>> : k \in DOMAIN value.default}
    ELSE {}

\* lines 375, 390, 402: obj[key] = checkTypeMatching(obj[key], k, v)
ctmStep(obj, key, it) == SetProp(obj, key, checkTypeMatching(Get(obj, key), it[1], it[2]))

\* lines 373-376, 388-391, 400-403: one step for each pair still to visit
ctmLoop(obj, key, items) ==
    IF items = {} \/ IsThrow(obj) THEN obj
    ELSE ctmLoop(ctmStep(obj, key, CHOOSE x \in items : TRUE), key,
                 items \ {CHOOSE x \in items : TRUE})

\* lines 406-410: get rid of keys that aren't in the schema
ctmDeleteExtra(obj, key, value) ==
    IF IsThrow(obj) \/ value.type # "object" THEN obj
    ELSE SetProp(obj, key, RemoveKeys(Get(obj, key), ObjectKeys(Get(obj, key)) \ DOMAIN value.default))

ctmVisit(obj, key, value) == ctmLoop(obj, key, ctmItems(Get(obj, key), value))

\* A reconciler that either replaces the value at key or descends into it.
ctmVisitIfSame(added, reset, key, value) ==
    IF reset = added THEN ctmVisit(reset, key, value) ELSE reset
checkTypeMatchingResetOrVisit(obj, key, value) ==
    IF IsThrow(obj) THEN obj
    ELSE IF IsNullish(obj) THEN Throw
    ELSE ctmDeleteExtra(ctmVisitIfSame(ctmAddKey(obj, key, value),
                                       ctmReset(ctmAddKey(obj, key, value), key, value),
                                       key, value),
                        key, value)

checkTypeMatching(obj, key, value) ==
    IF IsThrow(obj) THEN obj
    ELSE IF IsNullish(obj) THEN Throw
    ELSE ctmDeleteExtra(ctmVisit(ctmReset(ctmAddKey(obj, key, value), key, value), key, value),
                        key, value)

(***************************************************************************)
(* cleanUp (lines 111-127) against the schema sch.                         *)
(***************************************************************************)
cleanUpLoop(updateObject, sch, ks) ==
    IF ks = {} \/ IsThrow(updateObject) THEN updateObject
    ELSE cleanUpLoop(checkTypeMatching(updateObject, CHOOSE x \in ks : TRUE,
                                       sch[CHOOSE x \in ks : TRUE]),
                     sch, ks \ {CHOOSE x \in ks : TRUE})

\* lines 120-124: get rid of keys that aren't in the schema
cleanUpDeleteExtra(updateObject, sch) ==
    IF IsThrow(updateObject) THEN updateObject
    ELSE RemoveKeys(updateObject, ObjectKeys(updateObject) \ DOMAIN sch)

cleanUpWith(updateObject, sch) ==
    cleanUpDeleteExtra(cleanUpLoop(updateObject, sch, DOMAIN sch), sch)

(***************************************************************************)
(* changeLockedBack (lines 425-461).  The value returned is obj2 after the *)
(* in-place changes, or Throw.                                             *)
(***************************************************************************)
\* obj2[key] !== obj1[key]: primitives compare by value, objects by reference,
\* and the two sides never hold the same reference where the result matters
\* (when they do, the assignment that follows stores the value already there).
StrictNotEqual(a, b) == IF IsObjectLike(a) /\ IsObjectLike(b) THEN TRUE ELSE a # b

\* line 438: the array whose length bounds the loop, or Throw
clbBoundArray(obj1, obj2, key) ==
    IF IsNullish(obj2) THEN Throw
    ELSE IF IsArray(Get(obj2, key)) THEN Get(obj2, key)
    ELSE IF IsNullish(obj1) THEN Throw
    ELSE IF IsArray(Get(obj1, key)) THEN Get(obj1, key)
    ELSE EmptyArr

\* line 447: the keys the map loop visits
clbMapKeys(obj1keys, obj2keys) == IF obj1keys # {} THEN obj1keys ELSE obj2keys

\* lines 445-446: Object.keys throws on a missing or null map
clbMapThrows(obj1, obj2, key) ==
    \/ IsNullish(obj1) \/ IsNullish(obj2)
    \/ IsNullish(Get(obj1, key)) \/ IsNullish(Get(obj2, key))

\* Whether computing what the loops of lines 438 and 447 visit throws.
clbItemsThrow(obj1, obj2, key, value) ==
    \/ value.type = "array" /\ IsThrow(clbBoundArray(obj1, obj2, key))
    \/ value.type = "map" /\ clbMapThrows(obj1, obj2, key)

\* The <<k, descriptor>> pairs the loops of lines 438, 447 and 454 visit.
clbItems(obj1, obj2, key, value) ==
    IF value.type = "array"
        THEN {<<IdxStr(k), value.of>> : k \in 0..(Length(clbBoundArray(obj1, obj2, key)) - 1)}
    ELSE IF value.type = "map"
        THEN {<<k, value.of>> :
                k \in clbMapKeys(ObjectKeys(Get(obj1, key)), ObjectKeys(Get(obj2, key)))}
    ELSE IF value.type = "object" THEN {<<k, value.default[k]>> : k \in DOMAIN value.default}
    ELSE {}

\* lines 440, 449, 456: obj2[key] = changeLockedBack(obj1[key], obj2[key], k, v)
clbStep(obj1, obj2, key, it) ==
    IF IsNullish(obj1) \/ IsNullish(obj2) THEN Throw
    ELSE SetProp(obj2, key, changeLockedBack(Get(obj1, key), Get(obj2, key), it[1], it[2]))

\* lines 438-441, 447-450, 454-457: one step for each pair still to visit
clbLoop(obj1, obj2, key, items) ==
    IF items = {} \/ IsThrow(obj2) THEN obj2
    ELSE clbLoop(obj1, clbStep(obj1, obj2, key, CHOOSE x \in items : TRUE), key,
                 items \ {CHOOSE x \in items : TRUE})

\* line 432: a locked primitive whose value differs is set back
clbLocked(obj1, obj2, key) ==
    IF IsNullish(obj2) \/ IsNullish(obj1) THEN Throw
    ELSE IF StrictNotEqual(Get(obj2, key), Get(obj1, key)) THEN SetProp(obj2, key, Get(obj1, key))
    ELSE obj2

changeLockedBack(obj1, obj2, key, value) ==
    IF IsThrow(obj1) \/ IsThrow(obj2) THEN Throw
    ELSE IF isPrimitiveSchema(value)
        THEN IF value.locked = TRUE THEN clbLocked(obj1, obj2, key) ELSE obj2
    ELSE IF clbItemsThrow(obj1, obj2, key, value) THEN Throw
    ELSE clbLoop(obj1, obj2, key, clbItems(obj1, obj2, key, value))

(***************************************************************************)
(* The Model instance: its schema, strict flag and directory of files.     *)
(***************************************************************************)
cleanUp(updateObject) == cleanUpWith(updateObject, schema)

\* The errors the operations throw.
NotFound == [t |-> "throw", e |-> "NotFound"]               \* line 172
LockedChanged == [t |-> "throw", e |-> "LockedChanged"]     \* line 218
SchemaMismatch == [t |-> "throw", e |-> "SchemaMismatch"]   \* line 138

\* `${value}`: the string a template literal makes of a value.
PrimString(v) ==
    IF v.t = "string" THEN v.s
    ELSE IF v.t = "number" THEN Digits[v.n + 1]
    ELSE IF v.t = "boolean" THEN (IF v.b THEN "true" ELSE "false")
    ELSE IF v.t = "null" THEN "null"
    ELSE IF v.t = "undefined" THEN "undefined"
    ELSE IF v.t = "object" THEN "[object Object]"
    ELSE ""
JoinFrom(elems, i) ==
    IF i > Len(elems) THEN ""
    ELSE (IF i > 1 THEN "," ELSE "")
            \o (IF elems[i].t \in {"null", "undefined", "hole"} THEN "" ELSE PrimString(elems[i]))
            \o JoinFrom(elems, i + 1)
TemplateString(v) == IF v.t = "array" THEN JoinFrom(v.a, 1) ELSE PrimString(v)

\* The file `${path}/${updateObject._id}.json` is named here by its stem.
FileName(updateObject) == TemplateString(Get(updateObject, "_id"))

\* readdirSync(path): the files of the directory, in the directory's order.
DirOrder == <<"", "a", "undefined", "z">>
ReadDir(st) == SelectSeq(DirOrder, LAMBDA n : n \in DOMAIN st)

\* The caller's predicates: p => true, p => p._id === v and p => p.o.v === v.
FilterAll == [kind |-> "all", v |-> Undefined]
FilterId(v) == [kind |-> "id", v |-> v]
FilterV(v) == [kind |-> "v", v |-> v]
NoFilter == [kind |-> "none", v |-> Undefined]
Holds(filter, file) ==
    IF filter.kind = "all" THEN TRUE
    ELSE IF filter.kind = "id" THEN Get(file, "_id") = filter.v
    ELSE IF filter.kind = "v"
        THEN IsObjectLike(Get(file, "o")) /\ Get(Get(file, "o"), "v") = filter.v
    ELSE FALSE

\* A load that returns the file as it is stored.
loadFileRaw(st, fileName) == st[fileName]

\* lines 152, 168: a file as find and findOne load it
loadFile(st, fileName) == cleanUp(st[fileName])

\* lines 135-141: the check of strict mode, then the write.  The directory
\* after the write, or the error thrown.
saveChecked(st, updateObject, dataObject) ==
    IF IsThrow(dataObject) THEN dataObject
    ELSE IF strict = TRUE /\ ~SameJson(updateObject, dataObject) THEN SchemaMismatch
    ELSE [t |-> "dir", st |-> SetKey(st, FileName(updateObject), jsonRoundTrip(updateObject))]

\* save (lines 130-142)
save(st, updateObject) == saveChecked(st, updateObject, cleanUp(jsonRoundTrip(updateObject)))

\* lines 154-158: the files the filter keeps
findFilter(returnedFiles, filter) ==
    IF \E i \in 1..Len(returnedFiles) : IsThrow(returnedFiles[i]) THEN Throw
    ELSE Arr(SelectSeq(returnedFiles, LAMBDA file : Holds(filter, file)))

\* lines 147-153: every file of the directory, loaded
findLoad(st, allFileNames) == [i \in 1..Len(allFileNames) |-> loadFile(st, allFileNames[i])]

\* find (lines 145-159): the array returned, or the error thrown.
find(st, filter) == findFilter(findLoad(st, ReadDir(st)), filter)

\* line 169: the file is returned if the filter holds of it
findOneTest(st, allFileNames, filter, i, file) ==
    IF IsThrow(file) THEN file
    ELSE IF Holds(filter, file) THEN file
    ELSE findOneLoop(st, allFileNames, filter, i + 1)

\* findOne (lines 162-173): the document returned, or the error thrown.
findOneLoop(st, allFileNames, filter, i) ==
    IF i > Len(allFileNames) THEN NotFound
    ELSE findOneTest(st, allFileNames, filter, i, loadFile(st, allFileNames[i]))
\* A findOne that starts at the second file of the directory.
findOneSkipFirst(st, filter) == findOneLoop(st, ReadDir(st), filter, 2)
findOne(st, filter) == findOneLoop(st, ReadDir(st), filter, 1)

\* lines 213-217: updateObject starts as a copy of newDataObject and is, from
\* the first call on, newDataObject itself (changeLockedBack returns obj2).
\* The pair returned is <<updateObject, newDataObject>>.
guardStep(r, ks) == IF IsThrow(r) THEN <<Throw, Throw>> ELSE guardLoop(r, r, ks)
guardLoop(updateObject, newDataObject, ks) ==
    IF ks = {} THEN <<updateObject, newDataObject>>
    ELSE guardStep(changeLockedBack(updateObject, newDataObject, CHOOSE x \in ks : TRUE,
                                    schema[CHOOSE x \in ks : TRUE]),
                   ks \ {CHOOSE x \in ks : TRUE})
guard(newDataObject) == guardLoop(jsonRoundTrip(newDataObject), newDataObject, DOMAIN schema)

\* The caller's update functions.
NoMu == [kind |-> "none", path |-> <<>>, val |-> Undefined]
MuSet(path, val) == [kind |-> "set", path |-> path, val |-> val]
MuDelete(path) == [kind |-> "delete", path |-> path, val |-> Undefined]
MuPush(path, val) == [kind |-> "push", path |-> path, val |-> val]
MuPop(path) == [kind |-> "pop", path |-> path, val |-> Undefined]
MutateAt(v, mu, key) ==
    IF mu.kind = "set" THEN SetProp(v, key, mu.val)
    ELSE IF mu.kind = "delete" THEN (IF IsObjectLike(v) THEN DeleteProp(v, key) ELSE v)
    ELSE IF IsNullish(Get(v, key)) \/ ~IsArray(Get(v, key)) THEN Throw
    ELSE IF mu.kind = "push"
        THEN SetProp(v, key, SetProp(Get(v, key), IdxStr(Length(Get(v, key))), mu.val))
    ELSE IF mu.kind = "pop"
        THEN SetProp(v, key, [Get(v, key) EXCEPT !.a = SubSeq(@, 1, Len(@) - 1)])
    ELSE v
\* updateFunction(newDataObject): the object after the call, or the error thrown.
Mutate(v, mu) ==
    IF mu.kind = "none" THEN v
    ELSE IF Len(mu.path) = 1 THEN MutateAt(v, mu, mu.path[1])
    ELSE IF IsNullish(Get(v, mu.path[1])) THEN Throw
    ELSE SetProp(v, mu.path[1], MutateAt(Get(v, mu.path[1]), mu, mu.path[2]))

(***************************************************************************)
(* The schema of the modelled instance and the inputs of its operations.   *)
(***************************************************************************)
ModelSchema ==
    [k \in {"_id", "o", "m"} |->
        IF k = "_id" THEN StringSchema(Str(""), TRUE)
        ELSE IF k = "o" THEN ObjectSchema(Prop1("v", NumberSchema(Num(0), TRUE)))
        ELSE MapSchema(NumberSchema(Num(0), FALSE))]

Doc(id, v, m) ==
    Obj([k \in {"_id", "o", "m"} |->
        IF k = "_id" THEN id
        ELSE IF k = "o" THEN Obj(Prop1("v", v))
        ELSE Obj(m)])

BaseDoc == Doc(Str("a"), Num(1), Prop1("a", Num(1)))
ConformantDocs == {BaseDoc, Doc(Str("z"), Num(1), Prop1("a", Num(1)))}

\* BaseDoc with one fault: a field missing, an unknown key, a wrong-typed value
\* one level down, a sequence where an object is declared.
FaultyDocs ==
    {Obj(DelKey(BaseDoc.o, "_id")),
     Obj(SetKey(BaseDoc.o, "extra", Str("a"))),
     Obj(SetKey(BaseDoc.o, "o", Obj(Prop1("v", Str("a"))))),
     Obj(SetKey(BaseDoc.o, "o", EmptyArr)),
     Obj(SetKey(BaseDoc.o, "o", Arr(<<Num(1)>>)))}

CreateDocs == ConformantDocs \cup FaultyDocs

Filters == {FilterAll, FilterId(Str("a")), FilterId(Str("")), FilterV(Num(1))}

Mutations ==
    {NoMu, MuSet(<<"_id">>, Str("z")), MuSet(<<"o", "v">>, Num(5)),
     MuDelete(<<"m">>), MuSet(<<"m">>, Null), MuDelete(<<"o">>)}

\* The directories a Model may be constructed over: empty, or one file, whose
\* name need not be the _id it holds.
InitDirs ==
    {NoProps, Prop1("a", BaseDoc), Prop1("z", BaseDoc),
     Prop1("z", Obj(DelKey(BaseDoc.o, "_id"))),
     Prop1("a", Obj(SetKey(BaseDoc.o, "o", Obj(Prop1("v", Str("a"))))))}

NoOp == [name |-> "none", filter |-> NoFilter, doc |-> Undefined, mu |-> NoMu, orig |-> Undefined]
Result(kind, stage, val) == [kind |-> kind, stage |-> stage, val |-> val]
NoResult == Result("none", "none", Undefined)
\* The outcome of an operation that ended at `stage`: the error thrown or val.
Outcome(stage, r, val) == IF IsThrow(r) THEN Result(r.e, stage, Undefined) ELSE Result("ok", stage, val)

(***************************************************************************)
(* The operations.  Each yields [res |-> its outcome, st |-> the directory *)
(* it leaves].                                                             *)
(***************************************************************************)
Done(r, st) == [res |-> r, st |-> st]
\* The end of an operation whose last call yielded r, a directory or an error.
DoneSaved(r, val, st) == Done(Outcome("save", r, val), IF IsThrow(r) THEN st ELSE r.st)

\* lines 315-318: the constructor saves every file's reconciled form.
constructStep(r, st, files, i) ==
    IF IsThrow(r) THEN DoneSaved(r, Undefined, st) ELSE constructLoop(r.st, files, i + 1)
constructLoop(st, files, i) ==
    IF i > Len(files) THEN Done(Result("ok", "done", Undefined), st)
    ELSE constructStep(save(st, cleanUp(files[i])), st, files, i)
constructFiles(st, files) ==
    IF IsThrow(files) THEN Done(Outcome("find", files, Undefined), st)
    ELSE constructLoop(st, files.a, 1)
construct(st) == constructFiles(st, find(st, FilterAll))

\* lines 176-185
create(st, dataObject) == DoneSaved(save(st, dataObject), dataObject, st)

\* lines 195-198: unlinkSync throws when the file named by _id does not exist.
fodUnlink(st, dataObject) ==
    IF IsThrow(dataObject) THEN Done(Outcome("find", dataObject, Undefined), st)
    ELSE IF FileName(dataObject) \notin DOMAIN st
        THEN Done(Result("ENOENT", "unlink", Undefined), st)
    ELSE Done(Result("ok", "done", Undefined), DelKey(st, FileName(dataObject)))

\* findOneAndDelete (lines 188-199)
findOneAndDelete(st, filter) == fodUnlink(st, findOne(st, filter))

\* lines 218-225: g is the pair <<updateObject, newDataObject>> the guard leaves
fouCompare(st, g) ==
    IF IsThrow(g[2]) THEN Done(Outcome("guard", g[2], Undefined), st)
    ELSE IF ~SameJson(g[1], g[2]) THEN Done(Outcome("compare", LockedChanged, Undefined), st)
    ELSE DoneSaved(save(st, g[2]), g[2], st)

\* lines 213-217
fouGuard(st, newDataObject) ==
    IF IsThrow(newDataObject) THEN Done(Outcome("updateFunction", newDataObject, Undefined), st)
    ELSE fouCompare(st, guard(newDataObject))

\* lines 209-210
fouMutate(st, dataObject, mu) ==
    IF IsThrow(dataObject) THEN Done(Outcome("find", dataObject, Undefined), st)
    ELSE fouGuard(st, Mutate(jsonRoundTrip(dataObject), mu))

\* findOneAndUpdate (lines 202-226)
findOneAndUpdate(st, filter, mu) == fouMutate(st, findOne(st, filter), mu)

(***************************************************************************)
(* The state machine: a Model constructed over a directory, then used.     *)
(***************************************************************************)
Init ==
    /\ schema = ModelSchema
    /\ strict \in BOOLEAN
    /\ store \in InitDirs
    /\ pc = "new"
    /\ op = NoOp
    /\ res = NoResult
    /\ prev = store

Apply(o, d) ==
    /\ Cardinality(DOMAIN d.st) <= MaxFiles
    /\ op' = o
    /\ res' = d.res
    /\ store' = d.st
    /\ prev' = store
    /\ pc' = IF d.res.kind = "ok" \/ o.name # "construct" THEN "ready" ELSE "failed"
    /\ UNCHANGED <<schema, strict>>

OutcomeOf(stage, r) == Outcome(stage, r, r)

Construct ==
    /\ pc = "new"
    /\ Apply([NoOp EXCEPT !.name = "construct"], construct(store))

Find(filter) ==
    /\ pc = "ready"
    /\ Apply([NoOp EXCEPT !.name = "find", !.filter = filter],
             Done(OutcomeOf("find", find(store, filter)), store))

FindOne(filter) ==
    /\ pc = "ready"
    /\ Apply([NoOp EXCEPT !.name = "findOne", !.filter = filter],
             Done(OutcomeOf("find", findOne(store, filter)), store))

Create(dataObject) ==
    /\ pc = "ready"
    /\ Apply([NoOp EXCEPT !.name = "create", !.doc = dataObject], create(store, dataObject))

FindOneAndDelete(filter) ==
    /\ pc = "ready"
    /\ Apply([NoOp EXCEPT !.name = "findOneAndDelete", !.filter = filter],
             findOneAndDelete(store, filter))

FindOneAndUpdate(filter, mu) ==
    /\ pc = "ready"
    /\ Apply([NoOp EXCEPT !.name = "findOneAndUpdate", !.filter = filter, !.mu = mu],
             findOneAndUpdate(store, filter, mu))

Next ==
    \/ Construct
    \/ \E filter \in Filters : Find(filter)
    \/ \E filter \in Filters : FindOne(filter)
    \/ \E dataObject \in CreateDocs : Create(dataObject)
    \/ \E filter \in Filters : FindOneAndDelete(filter)
    \/ \E filter \in Filters, mu \in Mutations : FindOneAndUpdate(filter, mu)

Spec == Init /\ [][Next]_vars

(***************************************************************************)
(* The reconciler alone: cleanUp applied, once and then again, to input    *)
(* trees of every kind under schemas of every descriptor kind.             *)
(***************************************************************************)
IdSchema == StringSchema(Str(""), TRUE)
ScalarSchema ==
    Prop3("_id", IdSchema, "name", StringSchema(Str("x"), FALSE),
          "age", OptionalNumberSchema(Null, FALSE))
ArrayOfNumberSchema == Prop2("_id", IdSchema, "list", ArraySchema(NumberSchema(Num(0), FALSE)))
VObject == ObjectSchema(Prop1("v", NumberSchema(Num(0), FALSE)))
MapOfObjectSchema == Prop2("_id", IdSchema, "m", MapSchema(VObject))
ArrayOfObjectSchema == Prop2("_id", IdSchema, "list", ArraySchema(VObject))
NestedObjectSchema ==
    Prop2("_id", IdSchema, "o",
          ObjectSchema(Prop2("b", BooleanSchema(Bool(FALSE), FALSE),
                             "i", ObjectSchema(Prop1("s", StringNumberSchema(Str(""), FALSE))))))
\* Objects with a field named length.
LengthNumberSchema ==
    Prop2("_id", IdSchema, "o", ObjectSchema(Prop1("length", NumberSchema(Num(0), FALSE))))
LengthStringSchema ==
    Prop2("_id", IdSchema, "o", ObjectSchema(Prop1("length", StringSchema(Str("x"), FALSE))))
LengthBooleanSchema ==
    Prop2("_id", IdSchema, "o", ObjectSchema(Prop1("length", BooleanSchema(Bool(TRUE), FALSE))))
ReconcileSchemas ==
    {ScalarSchema, ArrayOfNumberSchema, MapOfObjectSchema, ArrayOfObjectSchema, NestedObjectSchema,
     LengthNumberSchema, LengthStringSchema, LengthBooleanSchema}

\* Values of every kind, put at every position.
Junk == {Null, Str("a"), Num(1), EmptyArr, EmptyObj}
MapKeys == {"a", "b"}
SeqsUpTo(S, n) == UNION {[1..k -> S] : k \in 0..n}
Absent == [t |-> "absent"]
WithKey(props, k, v) == IF v = Absent THEN props ELSE SetKey(props, k, v)

\* The property lists over the keys ks: each key missing or holding any of the
\* input values of its descriptor.
GenProps(fields, ks) ==
    IF ks = {} THEN {NoProps}
    ELSE {WithKey(f, CHOOSE x \in ks : TRUE, v) :
            f \in GenProps(fields, ks \ {CHOOSE x \in ks : TRUE}),
            v \in GenVal(fields[CHOOSE x \in ks : TRUE]) \cup {Absent}}

\* The input values tried at a position described by value: junk, and the
\* containers of the right kind over the values tried one level down.
GenVal(value) ==
    IF isPrimitiveSchema(value) THEN Junk \cup {value.default}
    ELSE IF value.type = "array"
        THEN Junk \cup {Arr(e) : e \in SeqsUpTo(GenVal(value.of), MaxLen)}
    ELSE IF value.type = "map"
        THEN Junk \cup {Obj(f) : f \in GenProps([k \in MapKeys |-> value.of], MapKeys)}
    ELSE Junk \cup {Arr(<<Num(1)>>)}
            \cup {Obj(WithKey(f, "junk", v)) :
                    f \in GenProps(value.default, DOMAIN value.default), v \in {Num(1), Absent}}

\* The documents tried under the schema sch: _id present or missing, every
\* other field missing or holding any of its input values, an unknown key
\* present or not.
GenDocs(sch) ==
    {Obj(WithKey(WithKey(f, "_id", i), "extra", e)) :
        f \in GenProps(sch, DOMAIN sch \ {"_id"}),
        i \in {Str("a"), Absent}, e \in {Str("a"), Absent}}

PureInit(schemas) ==
    /\ schema \in schemas
    /\ strict = TRUE
    /\ store = NoProps
    /\ prev = NoProps
    /\ pc = "input"
    /\ res = NoResult

InitReconcile ==
    /\ PureInit(ReconcileSchemas)
    /\ op \in {[NoOp EXCEPT !.name = "cleanUp", !.doc = d] : d \in GenDocs(schema)}

\* res.val is cleanUp(op.doc)
Reconcile ==
    /\ pc = "input"
    /\ op.name = "cleanUp"
    /\ pc' = "once"
    /\ res' = OutcomeOf("cleanUp", cleanUp(op.doc))
    /\ UNCHANGED <<schema, strict, store, prev, op>>

\* op.orig is the input, op.doc its reconciled form and res.val the cleanUp
\* of the reconciled form
ReconcileAgain ==
    /\ pc = "once"
    /\ res.kind = "ok"
    /\ pc' = "twice"
    /\ op' = [op EXCEPT !.orig = op.doc, !.doc = res.val]
    /\ res' = OutcomeOf("cleanUp", cleanUp(res.val))
    /\ UNCHANGED <<schema, strict, store, prev>>

NextReconcile == Reconcile \/ ReconcileAgain
SpecReconcile == InitReconcile /\ [][NextReconcile]_vars

(***************************************************************************)
(* The guard alone: changeLockedBack applied for every field of the schema *)
(* to an original and a candidate that both conform to the schema.         *)
(***************************************************************************)
LockedScalarSchema ==
    Prop3("_id", IdSchema, "name", StringSchema(Str(""), FALSE), "n", NumberSchema(Num(0), TRUE))
LockedObjectSchema ==
    Prop2("_id", IdSchema, "o",
          ObjectSchema(Prop2("v", NumberSchema(Num(0), TRUE), "w", StringSchema(Str(""), FALSE))))
LockedArraySchema == Prop2("_id", IdSchema, "list", ArraySchema(NumberSchema(Num(0), TRUE)))
LockedMapSchema == Prop2("_id", IdSchema, "m", MapSchema(NumberSchema(Num(0), TRUE)))
LockedVObject == ObjectSchema(Prop1("v", NumberSchema(Num(0), TRUE)))
LockedArrayOfObjectSchema == Prop2("_id", IdSchema, "list", ArraySchema(LockedVObject))
LockedMapOfObjectSchema == Prop2("_id", IdSchema, "m", MapSchema(LockedVObject))
GuardSchemas ==
    {LockedScalarSchema, LockedObjectSchema, LockedArraySchema, LockedMapSchema,
     LockedArrayOfObjectSchema, LockedMapOfObjectSchema}

\* Two values of each primitive type.
TypeValues(value) ==
    IF value.type \in {"string", "string?"} THEN {Str(""), Str("a")}
    ELSE IF value.type = "boolean" THEN {Bool(FALSE), Bool(TRUE)}
    ELSE IF value.type = "string|number" THEN {Num(5), Str("5")}
    ELSE {Num(0), Num(1)}

ConformantProps(fields, ks) ==
    IF ks = {} THEN {NoProps}
    ELSE {SetKey(f, CHOOSE x \in ks : TRUE, v) :
            f \in ConformantProps(fields, ks \ {CHOOSE x \in ks : TRUE}),
            v \in ConformantValues(fields[CHOOSE x \in ks : TRUE])}

\* The values that conform to the descriptor value.
ConformantValues(value) ==
    IF isPrimitiveSchema(value) THEN TypeValues(value)
    ELSE IF value.type = "array"
        THEN {Arr(e) : e \in SeqsUpTo(ConformantValues(value.of), MaxLen)}
    ELSE IF value.type = "map"
        THEN UNION {{Obj(f) : f \in ConformantProps([k \in J |-> value.of], J)} : J \in SUBSET MapKeys}
    ELSE {Obj(f) : f \in ConformantProps(value.default, DOMAIN value.default)}

ConformantObjects(sch) == {Obj(f) : f \in ConformantProps(sch, DOMAIN sch)}

\* changeLockedBack(original, candidate, key, schema[key]) for every key of
\* the schema: the candidate they leave, or the error thrown.
enforceLockedLoop(obj1, obj2, ks) ==
    IF ks = {} \/ IsThrow(obj2) THEN obj2
    ELSE enforceLockedLoop(obj1,
                           changeLockedBack(obj1, obj2, CHOOSE x \in ks : TRUE,
                                            schema[CHOOSE x \in ks : TRUE]),
                           ks \ {CHOOSE x \in ks : TRUE})
enforceLocked(original, candidate) == enforceLockedLoop(original, candidate, DOMAIN schema)

InitGuard ==
    /\ PureInit(GuardSchemas)
    /\ op \in {[NoOp EXCEPT !.name = "changeLockedBack", !.orig = o, !.doc = c] :
                o \in ConformantObjects(schema), c \in ConformantObjects(schema)}

\* res.val is the candidate op.doc after the guard against the original op.orig
Enforce ==
    /\ pc = "input"
    /\ op.name = "changeLockedBack"
    /\ pc' = "guarded"
    /\ res' = OutcomeOf("guard", enforceLocked(op.orig, op.doc))
    /\ UNCHANGED <<schema, strict, store, prev, op>>

NextGuard == Enforce
SpecGuard == InitGuard /\ [][NextGuard]_vars

(***************************************************************************)
(* The log of changes: createLogArray (lines 231-256) and formatLog (lines *)
(* 259-302).  Both documents list their keys in the same order, KeyOrder.  *)
(***************************************************************************)
KeyOrder ==
    <<"0", "1", "2", "3", "4", "_id", "a", "b", "i", "list", "m", "o", "s", "v">>
\* Object.keys(v), in order
OrderedKeys(v) == SelectSeq(KeyOrder, LAMBDA k : k \in ObjectKeys(v))

\* line 228
isObject(val) == IsObjectLike(val)
\* lines 237-239
hasObjectsAsValues(val) == \E k \in ObjectKeys(val) : isObject(Get(val, k))
\* lines 241-244
objectKeyOrUndefined(val, key) == IF isObject(val) THEN Get(val, key) ELSE Undefined

\* ToNumber of a primitive; -1 stands for NaN.
ToNumber(v) ==
    IF v.t = "number" THEN v.n
    ELSE IF v.t = "boolean" THEN (IF v.b THEN 1 ELSE 0)
    ELSE IF v.t = "string" THEN ArrayLengthOf(v)
    ELSE -1

\* a == b for primitives a and b
LooseEqualPrimitives(a, b) ==
    IF a.t = b.t THEN a = b
    ELSE IF IsNullish(a) \/ IsNullish(b) THEN IsNullish(a) /\ IsNullish(b)
    ELSE ToNumber(a) = ToNumber(b) /\ ToNumber(a) # -1

\* line 290: mainObjKey != otherObject?.[key], with mainObjKey a primitive;
\* an object on the other side is compared by the string it converts to.
LooseNotEqual(a, b) ==
    IF IsObjectLike(b) THEN ~LooseEqualPrimitives(a, Str(TemplateString(b)))
    ELSE ~LooseEqualPrimitives(a, b)

\* { ...newObject, ...reduced }
Spread(newObject, reduced) ==
    [x \in DOMAIN newObject \cup DOMAIN reduced |->
        IF x \in DOMAIN reduced THEN reduced[x] ELSE newObject[x]]

\* lines 287-297: one key of mainObject
reducerStep(mainObject, otherObject, key, newObject) ==
    IF ~isObject(Get(mainObject, key))
        THEN IF ~isObject(otherObject) \/ LooseNotEqual(Get(mainObject, key), Get(otherObject, key))
                THEN SetKey(newObject, key, Get(mainObject, key))
                ELSE newObject
        ELSE Spread(newObject,
                    objectReducer(Get(mainObject, key), objectKeyOrUndefined(otherObject, key)))

reducerLoop(mainObject, otherObject, keys, i, newObject) ==
    IF i > Len(keys) THEN newObject
    ELSE reducerLoop(mainObject, otherObject, keys, i + 1,
                     reducerStep(mainObject, otherObject, keys[i], newObject))

\* objectReducer (lines 281-301): the properties of the object it returns
objectReducer(mainObject, otherObject) ==
    reducerLoop(mainObject, otherObject, OrderedKeys(mainObject), 1, NoProps)

\* main.join(sep)
JoinSep(elems, i, sep) ==
    IF i > Len(elems) THEN ""
    ELSE (IF i > 1 THEN sep ELSE "")
            \o (IF elems[i].t \in {"null", "undefined", "hole"} THEN "" ELSE TemplateString(elems[i]))
            \o JoinSep(elems, i + 1, sep)

\* lines 271-276: JSON.stringify(props, null, 1) without its line breaks,
\* quotes and the spaces inside the braces: "{a: 1, b: x}"
formatFlat(props, keys, i, first) ==
    IF i > Len(keys) THEN "}"
    ELSE IF props[keys[i]].t = "undefined" THEN formatFlat(props, keys, i + 1, first)
    ELSE (IF first THEN "" ELSE ", ") \o keys[i] \o ": " \o PrimString(props[keys[i]])
            \o formatFlat(props, keys, i + 1, FALSE)

\* formatLog (lines 259-277)
formatLog(main, other) ==
    IF ~IsObjectLike(main) THEN TemplateString(main)
    ELSE IF IsArray(main) THEN "[" \o JoinSep(main.a, 1, ", ") \o "]"
    ELSE "{" \o formatFlat(objectReducer(main, other),
                           SelectSeq(KeyOrder, LAMBDA k : k \in DOMAIN objectReducer(main, other)),
                           1, TRUE)

\* A diff that records every key it formats.
claRecordAlways(path, oldValue, newValue) ==
    <<[path |-> path, oldValue |-> oldValue, newValue |-> newValue]>>

\* lines 250-253: the record of a key whose two formatted values differ
claRecord(path, oldValue, newValue) ==
    IF oldValue # newValue
        THEN <<[path |-> path, oldValue |-> oldValue, newValue |-> newValue]>>
        ELSE <<>>

\* line 246
claDescends(oldObject, newObject, key) ==
    /\ isObject(newObject)
    /\ isObject(Get(newObject, key))
    /\ \/ hasObjectsAsValues(Get(newObject, key))
       \/ /\ isObject(oldObject)
          /\ isObject(Get(oldObject, key))
          /\ hasObjectsAsValues(Get(oldObject, key))

\* lines 246-253: the records of one key
claKey(oldObject, newObject, variablePath, key) ==
    IF claDescends(oldObject, newObject, key)
        THEN createLogArray(objectKeyOrUndefined(oldObject, key), Get(newObject, key),
                            variablePath \o "." \o key)
        ELSE claRecord(variablePath \o "." \o key,
                       formatLog(objectKeyOrUndefined(oldObject, key),
                                 objectKeyOrUndefined(newObject, key)),
                       formatLog(objectKeyOrUndefined(newObject, key),
                                 objectKeyOrUndefined(oldObject, key)))

claLoop(oldObject, newObject, variablePath, keys, i) ==
    IF i > Len(keys) THEN <<>>
    ELSE claKey(oldObject, newObject, variablePath, keys[i])
            \o claLoop(oldObject, newObject, variablePath, keys, i + 1)

\* line 235: the keys of newObject, or of oldObject when newObject has none
claKeys(oldObject, newObject) ==
    IF ObjectKeys(newObject) = {} /\ ObjectKeys(oldObject) # {}
        THEN OrderedKeys(oldObject) ELSE OrderedKeys(newObject)

\* createLogArray (lines 231-256): the sequence of records
createLogArray(oldObject, newObject, variablePath) ==
    claLoop(oldObject, newObject, variablePath, claKeys(oldObject, newObject), 1)

\* Documents that conform to a schema, two by two.
StringOrNumberSchema == Prop2("_id", IdSchema, "s", StringNumberSchema(Str(""), FALSE))
MapOfNumberSchema == Prop2("_id", IdSchema, "m", MapSchema(NumberSchema(Num(0), FALSE)))
DiffSchemas ==
    {StringOrNumberSchema, ArrayOfNumberSchema, MapOfNumberSchema, MapOfObjectSchema,
     NestedObjectSchema}

InitDiff ==
    /\ PureInit(DiffSchemas)
    /\ op \in {[NoOp EXCEPT !.name = "createLogArray", !.orig = o, !.doc = n] :
                o \in ConformantObjects(schema), n \in ConformantObjects(schema)}

\* res.val is <<createLogArray(old, new, ''), createLogArray(new, old, '')>>
Diff ==
    /\ pc = "input"
    /\ op.name = "createLogArray"
    /\ pc' = "diffed"
    /\ res' = Result("ok", "diff", <<createLogArray(op.orig, op.doc, ""),
                                     createLogArray(op.doc, op.orig, "")>>)
    /\ UNCHANGED <<schema, strict, store, prev, op>>

NextDiff == Diff
SpecDiff == InitDiff /\ [][NextDiff]_vars

(***************************************************************************)
(* Conformance to a schema, stated from the descriptors alone.             *)
(***************************************************************************)
RECURSIVE conforms(_, _)
RECURSIVE keysConform(_, _)
RECURSIVE agreesAt(_, _, _, _)

TypeMatches(value, v) ==
    \/ value.type \in {"string", "string?", "string|number"} /\ v.t = "string"
    \/ value.type \in {"number", "number?", "string|number"} /\ v.t = "number"
    \/ value.type \in {"string?", "number?"} /\ v.t = "null"
    \/ value.type = "boolean" /\ v.t = "boolean"

\* v is a value of the kind and shape the descriptor value declares.
conforms(v, value) ==
    IF isPrimitiveSchema(value) THEN TypeMatches(value, v)
    ELSE IF value.type = "array"
        THEN v.t = "array" /\ v.p = NoProps /\ \A i \in 1..Len(v.a) : conforms(v.a[i], value.of)
    ELSE IF value.type = "map"
        THEN v.t = "object" /\ \A k \in DOMAIN v.o : conforms(v.o[k], value.of)
    ELSE /\ v.t = "object"
         /\ DOMAIN v.o = DOMAIN value.default
         /\ \A k \in DOMAIN v.o : conforms(v.o[k], value.default[k])

Conformant(doc) == conforms(doc, ObjectSchema(schema))

\* At every object-with-fields position of v reached through arrays, maps and
\* objects, the keys present are the keys the descriptor declares.
keysConform(v, value) ==
    IF isPrimitiveSchema(value) THEN TRUE
    ELSE IF ~IsObjectLike(v) THEN FALSE
    ELSE IF value.type \in {"array", "map"}
        THEN \A k \in ObjectKeys(v) : keysConform(Get(v, k), value.of)
    ELSE /\ ObjectKeys(v) = DOMAIN value.default
         /\ \A k \in DOMAIN value.default : keysConform(Get(v, k), value.default[k])

\* r holds the value of ref at every primitive position, at the top level and
\* inside object-with-fields descriptors, whose descriptor has locked = flag.
agreesAt(r, ref, value, flag) ==
    IF isPrimitiveSchema(value) THEN (value.locked = flag => r = ref)
    ELSE IF value.type = "object"
        THEN /\ IsObjectLike(r)
             /\ \A k \in DOMAIN value.default :
                    agreesAt(Get(r, k), Get(ref, k), value.default[k], flag)
    ELSE TRUE

(***************************************************************************)
(* What an operation of Spec was given: the document found, the document   *)
(* handed to save.                                                         *)
(***************************************************************************)
\* The mutator sets a locked top-level primitive of the document found to a
\* value it does not hold.
ChangesLocked(found, mu) ==
    /\ ~IsThrow(found)
    /\ mu.kind = "set"
    /\ Len(mu.path) = 1
    /\ mu.path[1] \in DOMAIN schema
    /\ isPrimitiveSchema(schema[mu.path[1]])
    /\ schema[mu.path[1]].locked = TRUE
    /\ Get(found, mu.path[1]) # mu.val

\* The operation handed a document to save.
Submits ==
    \/ op.name = "create"
    \/ op.name = "findOneAndUpdate" /\ res.stage = "save"

\* The document handed to save.
Submitted ==
    IF op.name = "create" THEN op.doc
    ELSE guard(Mutate(jsonRoundTrip(findOne(prev, op.filter)), op.mu))[2]

PersistedAs(doc, content) ==
    /\ res.kind = "ok"
    /\ FileName(doc) \in DOMAIN store
    /\ store[FileName(doc)] = content

\* The file names of the directory before the operation whose reconciled
\* content satisfies the filter of the operation.
Matching == {n \in DOMAIN prev : Holds(op.filter, cleanUp(prev[n]))}
FirstMatching == ReadDir(prev)[CHOOSE i \in 1..Len(ReadDir(prev)) :
                                /\ ReadDir(prev)[i] \in Matching
                                /\ \A j \in 1..(i - 1) : ReadDir(prev)[j] \notin Matching]

(***************************************************************************)
(* The claims.                                                             *)
(***************************************************************************)
\* C1: a findOneAndUpdate whose mutator sets a locked top-level primitive
\* field to a value different from the stored one fails with the
\* immutability-violation error and leaves the store unchanged.
C1_LockedChangeRejected ==
    (op.name = "findOneAndUpdate" /\ ChangesLocked(findOne(prev, op.filter), op.mu))
        => (res.kind = "LockedChanged" /\ store = prev)

\* C2: changeLockedBack applied for every schema field to a conformant
\* original and a conformant candidate yields a document that holds the
\* original's value at every locked primitive, at the top level and inside
\* object-with-fields descriptors, and the candidate's value at every
\* primitive not declared locked.
C2_GuardRestoresLocked ==
    pc = "guarded"
        => /\ res.kind = "ok"
           /\ agreesAt(res.val, op.orig, ObjectSchema(schema), TRUE)
           /\ agreesAt(res.val, op.doc, ObjectSchema(schema), FALSE)

\* C3: in strict mode create and the save step of findOneAndUpdate raise the
\* schema-mismatch error for every document that does not conform to the
\* schema and then write nothing; a conformant document is accepted and
\* persisted verbatim.
C3_StrictRejectsNonConformant ==
    (strict = TRUE /\ Submits)
        => IF Conformant(Submitted)
              THEN PersistedAs(Submitted, Submitted)
              ELSE res.kind = "SchemaMismatch" /\ store = prev

\* C4: with strict mode off, create and findOneAndUpdate of a document that
\* does not match the schema succeed, and the document persisted under its
\* _id is the reconciled one.
C4_NonStrictPersistsReconciled ==
    (strict = FALSE /\ Submits /\ ~Conformant(Submitted))
        => PersistedAs(cleanUp(jsonRoundTrip(Submitted)),
                       jsonRoundTrip(cleanUp(jsonRoundTrip(Submitted))))

\* C5: reconciliation is idempotent: cleanUp(cleanUp(d)) is structurally
\* equal to cleanUp(d) for every document d and every schema.
C5_Idempotent == pc = "twice" => (res.kind = "ok" /\ res.val = op.doc)

\* A map holding a null, a scalar and an object with an unknown key is
\* reconciled, and reconciling the result again changes nothing.
C5_Witness ==
    /\ pc = "twice"
    /\ schema = MapOfObjectSchema
    /\ op.orig = Obj(Prop2("_id", Str("a"),
                           "m", Obj(Prop2("a", Null, "b", Obj(Prop1("junk", Num(1)))))))
    /\ op.doc = Obj(Prop2("_id", Str("a"),
                          "m", Obj(Prop2("a", Obj(Prop1("v", Num(0))),
                                         "b", Obj(Prop1("v", Num(0)))))))
    /\ res.val = op.doc

\* C6: after reconciliation, at the top level and at every object-with-fields
\* position reached through arrays, maps and objects, the keys present are
\* exactly the keys the schema declares there.
C6_KeysConform ==
    (pc = "once" /\ res.kind = "ok") => keysConform(res.val, ObjectSchema(schema))

\* C7: the reconciler never raises: cleanUp returns a document for every
\* input tree and every schema.
C7_Total == pc = "once" => (res.kind = "ok" /\ IsObjectLike(res.val))

\* C8: the guard step of findOneAndUpdate raises no error of its own,
\* whatever the mutator did to the document.
C8_GuardNeverFails == op.name = "findOneAndUpdate" => res.stage # "guard"

\* C9: every document returned by find and findOne is the reconciled form of
\* a stored document, and the predicate is evaluated on the reconciled form:
\* find returns the reconciled form of exactly the files whose reconciled
\* form satisfies it, findOne one of them.
C9_ReturnsReconciled ==
    /\ (op.name = "find" /\ res.kind = "ok")
        => /\ IsArray(res.val)
           /\ {res.val.a[i] : i \in 1..Len(res.val.a)} = {cleanUp(prev[n]) : n \in Matching}
    /\ (op.name = "findOne" /\ res.kind = "ok")
        => res.val \in {cleanUp(prev[n]) : n \in Matching}

\* find with p => p._id === "" returns the reconciled form of a stored file
\* that holds no _id.
C9_Witness ==
    /\ op.name = "find"
    /\ op.filter = FilterId(Str(""))
    /\ res.kind = "ok"
    /\ \E n \in DOMAIN prev :
        /\ ~HasOwn(prev[n], "_id")
        /\ res.val.a = <<cleanUp(prev[n])>>

\* C10: findOne raises the not-found error exactly when no stored document's
\* reconciled form satisfies the filter, returns otherwise the first, in the
\* order of the directory, that satisfies it, and leaves the store unchanged.
C10_FindOneFirstOrNotFound ==
    op.name = "findOne"
        => /\ store = prev
           /\ IF Matching = {} THEN res.kind = "NotFound"
              ELSE res.kind = "ok" /\ res.val = cleanUp(prev[FirstMatching])

\* findOne returns the first of two files that satisfy the filter.
C10_Witness ==
    /\ op.name = "findOne"
    /\ DOMAIN prev = {"a", "z"}
    /\ Cardinality(Matching) = 2
    /\ res.kind = "ok"
    /\ res.val = cleanUp(prev["a"])
    /\ cleanUp(prev["a"]) # cleanUp(prev["z"])

\* C11: after a findOneAndDelete that succeeds, the document that matched the
\* filter is no longer in the store and every other stored document is
\* unchanged.
C11_DeleteRemovesMatched ==
    (op.name = "findOneAndDelete" /\ res.kind = "ok")
        => (Matching # {} /\ store = DelKey(prev, FirstMatching))

\* Every file of the directory st is named by the _id it holds.
WellNamed(st) == \A n \in DOMAIN st : FileName(st[n]) = n

\* C19: after a Model is constructed over a store, every document in the
\* store equals its own reconciled form, whatever the files held before and
\* whatever the strict mode, and construction raises no schema-mismatch error.
C19_ConstructReconcilesStore ==
    op.name = "construct"
        => /\ res.kind # "SchemaMismatch"
           /\ res.kind = "ok" => \A n \in DOMAIN store : store[n] = jsonRoundTrip(cleanUp(store[n]))

\* C20: from a store in which every document is stored under its own _id, a
\* create adds at most one document, a findOneAndDelete removes one, a
\* findOneAndUpdate leaves the number of documents as it was, and every
\* document is still stored under its own _id.
C20_UpdateInPlace ==
    (WellNamed(prev) /\ res.kind = "ok")
        => /\ op.name = "create"
                => (WellNamed(store) /\ DOMAIN store \in {DOMAIN prev, DOMAIN prev \cup {FileName(op.doc)}})
           /\ op.name = "findOneAndDelete"
                => (WellNamed(store) /\ Cardinality(DOMAIN store) = Cardinality(DOMAIN prev) - 1)
           /\ op.name = "findOneAndUpdate"
                => (WellNamed(store) /\ DOMAIN store = DOMAIN prev)

RECURSIVE objectsAreMappings(_, _)
RECURSIVE primitivesKept(_, _, _)

\* At every object-with-fields position of v reached through arrays, maps and
\* objects there is a mapping, not a sequence, with exactly the declared keys.
objectsAreMappings(v, value) ==
    IF isPrimitiveSchema(value) THEN TRUE
    ELSE IF ~IsObjectLike(v) THEN FALSE
    ELSE IF value.type \in {"array", "map"}
        THEN \A k \in ObjectKeys(v) : objectsAreMappings(Get(v, k), value.of)
    ELSE /\ v.t = "object"
         /\ DOMAIN v.o = DOMAIN value.default
         /\ \A k \in DOMAIN value.default : objectsAreMappings(v.o[k], value.default[k])

\* C15: reconciling any value against an object-with-fields descriptor yields
\* a mapping whose keys are exactly the declared ones, also when the value was
\* a sequence: no sequence survives at an object-with-fields position.
C15_ObjectPositionsHoldMappings ==
    (pc = "once" /\ res.kind = "ok") => objectsAreMappings(res.val, ObjectSchema(schema))

\* out holds, at every primitive position reached through the fields of
\* objects, the indexes of arrays and the keys of maps, the value of in when
\* its type is the declared one and the default of the descriptor otherwise.
primitivesKept(in, out, value) ==
    IF isPrimitiveSchema(value) THEN out = (IF TypeMatches(value, in) THEN in ELSE value.default)
    ELSE IF value.type = "array"
        THEN IsArray(in)
                => /\ IsArray(out)
                   /\ Len(out.a) = Len(in.a)
                   /\ \A i \in 1..Len(in.a) : primitivesKept(in.a[i], out.a[i], value.of)
    ELSE IF value.type = "map"
        THEN in.t = "object"
                => /\ ObjectKeys(out) = DOMAIN in.o
                   /\ \A k \in DOMAIN in.o : primitivesKept(in.o[k], Get(out, k), value.of)
    ELSE /\ IsObjectLike(out)
         /\ \A k \in DOMAIN value.default :
                primitivesKept(IF IsObjectLike(in) THEN Get(in, k) ELSE Undefined,
                               Get(out, k), value.default[k])

\* C16: at a primitive position the reconciler keeps a value of the declared
\* type (null too for the optional kinds) unchanged and replaces any other
\* value by the descriptor's default, for array elements by index and for map
\* values by key.
C16_PrimitivesKeptOrDefault ==
    (pc = "once" /\ res.kind = "ok") => primitivesKept(op.doc, res.val, ObjectSchema(schema))

\* C17: in the guard, when the candidate's array or map of locked primitives
\* has no elements while the original's has some, every element of the
\* original is restored into the result.
C17_EmptyCandidateRestored ==
    pc = "guarded"
        => /\ (schema = LockedArraySchema /\ Get(op.doc, "list") = EmptyArr)
                => (res.kind = "ok" /\ Get(res.val, "list") = Get(op.orig, "list"))
           /\ (schema = LockedMapSchema /\ Get(op.doc, "m") = EmptyObj)
                => (res.kind = "ok" /\ Get(res.val, "m") = Get(op.orig, "m"))

\* The locked primitive reached under the key k of the map m of doc: the
\* entry itself, or its field v when the entries are objects.
LockedUnder(doc, k) ==
    IF schema = LockedMapSchema THEN Get(Get(doc, "m"), k)
    ELSE IF IsObjectLike(Get(Get(doc, "m"), k)) THEN Get(Get(Get(doc, "m"), k), "v")
    ELSE Undefined

\* C18: for a map-of descriptor the guard visits the union of the keys of
\* original and candidate: a locked primitive under a key that only one side
\* has, while the other side has further keys, is forced to the original's
\* value at that path, and no error is raised.
C18_MapGuardVisitsUnion ==
    (/\ pc = "guarded"
     /\ schema \in {LockedMapSchema, LockedMapOfObjectSchema}
     /\ ObjectKeys(Get(op.orig, "m")) # {}
     /\ ObjectKeys(Get(op.doc, "m")) # {})
        => /\ res.kind = "ok"
           /\ \A k \in ObjectKeys(Get(op.orig, "m")) \cup ObjectKeys(Get(op.doc, "m")) :
                LockedUnder(res.val, k) = LockedUnder(op.orig, k)

RECURSIVE sameShape(_, _)

\* a and b have the same keys and lengths all the way down.
sameShape(a, b) ==
    IF IsObjectLike(a) /\ IsObjectLike(b)
        THEN /\ a.t = b.t
             /\ ObjectKeys(a) = ObjectKeys(b)
             /\ \A k \in ObjectKeys(a) : sameShape(Get(a, k), Get(b, k))
        ELSE ~IsObjectLike(a) /\ ~IsObjectLike(b)

Records(logArray) == {logArray[i] : i \in 1..Len(logArray)}
Swapped(r) == [path |-> r.path, oldValue |-> r.newValue, newValue |-> r.oldValue]

\* C12: createLogArray(a, a, '') is the empty sequence for every document a.
C12_DiffEmptiness == (pc = "diffed" /\ op.orig = op.doc) => res.val[1] = <<>>

\* The diff of a document holding a map of two objects with itself.
C12_Witness ==
    /\ pc = "diffed"
    /\ schema = MapOfObjectSchema
    /\ op.orig = Obj(Prop2("_id", Str("a"),
                           "m", Obj(Prop2("a", Obj(Prop1("v", Num(0))),
                                          "b", Obj(Prop1("v", Num(1)))))))
    /\ op.doc = op.orig
    /\ res.val[1] = <<>>

\* C13: createLogArray(a, b, '') and createLogArray(b, a, '') hold the same
\* paths, with oldValue and newValue swapped in each record.
C13_DiffSymmetry ==
    pc = "diffed" => Records(res.val[1]) = {Swapped(r) : r \in Records(res.val[2])}

\* C14: for two conformant documents of the same shape that are not
\* structurally equal, createLogArray(old, new, '') is not empty.
C14_DiffReportsEveryChange ==
    (pc = "diffed" /\ sameShape(op.orig, op.doc) /\ op.orig # op.doc) => res.val[1] # <<>>
====
